---- MODULE Spec2Model ----
(***************************************************************************)
(* Model of td/tde2e/td/e2e/encryption_test.py: deterministic padding,     *)
(* message encryption/decryption bound to a derived message identifier,    *)
(* and header encryption bound to a message.                               *)
(*                                                                         *)
(* Byte strings.  A Python bytes value is a sequence of chunks.  A chunk   *)
(* is either literal bytes (op = "lit", the bytes in lit) or the bytes     *)
(* lo..hi-1 of the output of a library primitive applied to byte strings   *)
(* (op = "hmac_sha512", "hmac_sha256", "aes_enc", "aes_dec"; the operands  *)
(* in args).  Byte strings are kept in normal form (adjacent literal       *)
(* chunks merged, adjacent ranges of the same output merged, no empty      *)
(* chunk), so that equality of byte strings is equality of values.         *)
(*                                                                         *)
(* The primitives of the Crypto library are ideal: HMAC outputs and AES    *)
(* blocks computed from different operands are different byte strings,     *)
(* and differ from every literal.  AES-CBC keeps its block structure:      *)
(* block j of the ciphertext is E_key(p_j xor c_{j-1}), and decryption of  *)
(* a block returns the plaintext block exactly when key, previous block    *)
(* and ciphertext block are the ones of the encryption.                    *)
(***************************************************************************)
EXTENDS Integers, Sequences, FiniteSets, TLC

VARIABLES pc, rng, msg, hdr, dec, hdec, prev, calls, harness

vars == <<pc, rng, msg, hdr, dec, hdec, prev, calls, harness>>

Min(a, b) == IF a < b THEN a ELSE b
Max(a, b) == IF a > b THEN a ELSE b

(***************************************************************************)
(* bytes: literals, len, +, [from:to], [0]                                 *)
(***************************************************************************)
Lit(s) ==
  IF s = <<>> THEN <<>>
  ELSE <<[op |-> "lit", args |-> <<>>, lit |-> s, lo |-> 0, hi |-> Len(s)]>>

Sym(o, a, n) == <<[op |-> o, args |-> a, lit |-> <<>>, lo |-> 0, hi |-> n]>>

Zeros(n) == Lit([i \in 1..n |-> 0])

RECURSIVE BLen(_)
BLen(b) == IF b = <<>> THEN 0 ELSE (b[1].hi - b[1].lo) + BLen(Tail(b))

Cat(a, b) ==
  IF a = <<>> THEN b
  ELSE IF b = <<>> THEN a
  ELSE LET l == a[Len(a)]
           f == b[1]
       IN IF l.op = "lit" /\ f.op = "lit"
            THEN SubSeq(a, 1, Len(a) - 1)
                   \o <<[l EXCEPT !.lit = l.lit \o f.lit, !.hi = l.hi + f.hi]>>
                   \o Tail(b)
          ELSE IF l.op = f.op /\ l.op # "lit" /\ l.args = f.args /\ l.hi = f.lo
            THEN SubSeq(a, 1, Len(a) - 1) \o <<[l EXCEPT !.hi = f.hi]>> \o Tail(b)
          ELSE a \o b

ChunkSlice(c, from, to) ==
  LET n == c.hi - c.lo
      f == Max(0, Min(from, n))
      t == Max(f, Min(to, n))
  IN IF f >= t THEN <<>>
     ELSE IF c.op = "lit" THEN Lit(SubSeq(c.lit, f + 1, t))
     ELSE <<[c EXCEPT !.lo = c.lo + f, !.hi = c.lo + t]>>

RECURSIVE Slice(_, _, _)
Slice(b, from, to) ==
  IF b = <<>> \/ to <= from THEN <<>>
  ELSE LET n == b[1].hi - b[1].lo
       IN Cat(ChunkSlice(b[1], from, to),
              Slice(Tail(b), Max(0, from - n), to - n))

\* buf[from:to] = val on a bytearray
SetSlice(buf, from, to, val) ==
  Cat(Cat(Slice(buf, 0, from), val), Slice(buf, to, BLen(buf)))

\* the values b[0] can have: the byte itself when b starts with literal
\* bytes, any byte when it starts with the output of a primitive
Byte0(b) == IF b[1].op = "lit" THEN {b[1].lit[1]} ELSE 0..255

(***************************************************************************)
(* Crypto library: HMAC and AES-256-CBC                                    *)
(***************************************************************************)
SHA512Size == 64
SHA256Size == 32
BlockSize == 16

HMAC_SHA512(key, m) == Sym("hmac_sha512", <<key, m>>, SHA512Size)
HMAC_SHA256(key, m) == Sym("hmac_sha256", <<key, m>>, SHA256Size)

\* E_key(p xor prv) for one block
EncryptBlock(key, prv, p) == Sym("aes_enc", <<key, prv, p>>, BlockSize)

\* D_key(c) xor prv for one block
DecryptBlock(key, prv, c) ==
  IF /\ Len(c) = 1
     /\ c[1].op = "aes_enc"
     /\ c[1].lo = 0
     /\ c[1].hi = BlockSize
     /\ c[1].args[1] = key
     /\ c[1].args[2] = prv
    THEN c[1].args[3]
    ELSE Sym("aes_dec", <<key, prv, c>>, BlockSize)

RECURSIVE CBCEncrypt(_, _, _)
CBCEncrypt(key, iv, data) ==
  IF data = <<>> THEN <<>>
  ELSE LET c == EncryptBlock(key, iv, Slice(data, 0, BlockSize))
       IN Cat(c, CBCEncrypt(key, c, Slice(data, BlockSize, BLen(data))))

RECURSIVE CBCDecrypt(_, _, _)
CBCDecrypt(key, iv, data) ==
  IF data = <<>> THEN <<>>
  ELSE LET c == Slice(data, 0, BlockSize)
       IN Cat(DecryptBlock(key, iv, c),
              CBCDecrypt(key, c, Slice(data, BlockSize, BLen(data))))

(***************************************************************************)
(* random library: the generator state is a number, stepped once for each  *)
(* getrandbits(8)                                                          *)
(***************************************************************************)
RngModulus == 251

RngStep(r) == (r * 5 + 3) % RngModulus

\* the state after n draws, by halves; a value that is not a generator state
\* is left as it is
RECURSIVE RngAfter(_, _)
RngAfter(r, n) ==
  IF n = 0 \/ r \notin 0..(RngModulus - 1) THEN r
  ELSE IF n = 1 THEN RngStep(r)
  ELSE RngAfter(RngAfter(r, n \div 2), n - n \div 2)

getrandbits8(r) == RngStep(r) % 256

(***************************************************************************)
(* encryption_test.py                                                      *)
(***************************************************************************)
\* "tde2e_encrypt_data".encode('utf-8')
LabelData ==
  Lit(<<116, 100, 101, 50, 101, 95, 101, 110, 99, 114, 121, 112, 116, 95,
        100, 97, 116, 97>>)

\* "tde2e_encrypt_header".encode('utf-8')
LabelHeader ==
  Lit(<<116, 100, 101, 50, 101, 95, 101, 110, 99, 114, 121, 112, 116, 95,
        104, 101, 97, 100, 101, 114>>)

Return(v) == [error |-> "none", value |-> v]
Raise(e) == [error |-> e, value |-> <<>>]

\* x & y on non-negative integers
RECURSIVE BitAnd(_, _)
BitAnd(x, y) ==
  IF x = 0 \/ y = 0 THEN 0
  ELSE (x % 2) * (y % 2) + 2 * BitAnd(x \div 2, y \div 2)

\* two's complement of -16 in IntBits bits
IntBits == 16
Neg16 == 2 ^ IntBits - 16

\* variant: rounds down (the + 15 is missing)
padding_size_round_down(data_size, min_padding) ==
  BitAnd(min_padding + data_size, Neg16) - data_size

padding_size(data_size, min_padding) ==
  BitAnd(min_padding + 15 + data_size, Neg16) - data_size

\* variant: every padding byte holds the padding length
generate_deterministic_padding_filled(data_size, min_padding) ==
  LET n == padding_size(data_size, min_padding)
  IN Lit([i \in 1..n |-> n])

\* variant: the bytes after the length byte are drawn from the generator
generate_deterministic_padding_random(data_size, min_padding) ==
  LET n == padding_size(data_size, min_padding)
  IN Lit([i \in 1..n |-> IF i = 1 THEN n
                         ELSE getrandbits8(RngAfter(rng.state, i - 2))])

generate_deterministic_padding(data_size, min_padding) ==
  LET n == padding_size(data_size, min_padding)
  IN Lit([i \in 1..n |-> IF i = 1 THEN n ELSE 0])

hmac_sha512(a, b) == HMAC_SHA512(a, b)

hmac_sha256(a, b) == HMAC_SHA256(a, b)

kdf(key, info) == hmac_sha512(key, info)

\* struct.pack('<i', len(extra))
encode_len(extra) ==
  LET n == BLen(extra)
  IN Lit(<<n % 256, (n \div 256) % 256, (n \div 65536) % 256,
           (n \div 16777216) % 256>>)

\* variant: only the length of extra is authenticated
mac_input_without_extra(data, extra) == Cat(data, encode_len(extra))

\* variant: the length of extra is not appended
mac_input_without_len(data, extra) == Cat(data, extra)

mac_input(data, extra) == Cat(Cat(data, extra), encode_len(extra))

\* variant: the ciphertext is stored behind the whole 32-byte HMAC output
encrypt_data_with_prefix_offset32(data, secret, extra) ==
  IF BLen(data) % 16 # 0 THEN Raise("AssertionError")
  ELSE LET large_secret == kdf(secret, LabelData)
           encrypt_secret == Slice(large_secret, 0, 32)
           hmac_secret == Slice(large_secret, 32, 64)
           large_msg_id == hmac_sha256(hmac_secret, mac_input(data, extra))
           msg_id == Slice(large_msg_id, 0, 16)
           result0 == Zeros(BLen(data) + 16)
           result1 == SetSlice(result0, 0, 16, large_msg_id)
           encryption_secret == hmac_sha512(encrypt_secret, msg_id)
           key == Slice(encryption_secret, 0, 32)
           iv == Slice(encryption_secret, 32, 48)
           encrypted == CBCEncrypt(key, iv, data)
           result2 == SetSlice(result1, 32, BLen(result1), encrypted)
       IN Return(result2)

encrypt_data_with_prefix(data, secret, extra) ==
  IF BLen(data) % 16 # 0 THEN Raise("AssertionError")
  ELSE LET large_secret == kdf(secret, LabelData)
           encrypt_secret == Slice(large_secret, 0, 32)
           hmac_secret == Slice(large_secret, 32, 64)
           large_msg_id == hmac_sha256(hmac_secret, mac_input(data, extra))
           msg_id == Slice(large_msg_id, 0, 16)
           result0 == Zeros(BLen(data) + 16)
           result1 == SetSlice(result0, 0, 16, msg_id)
           encryption_secret == hmac_sha512(encrypt_secret, msg_id)
           key == Slice(encryption_secret, 0, 32)
           iv == Slice(encryption_secret, 32, 48)
           encrypted == CBCEncrypt(key, iv, data)
           result2 == SetSlice(result1, 16, BLen(result1), encrypted)
       IN Return(result2)

combine(padding, data) ==
  LET combined0 == Zeros(BLen(padding) + BLen(data))
      combined1 == SetSlice(combined0, 0, BLen(padding), padding)
  IN SetSlice(combined1, BLen(padding), BLen(combined1), data)

encrypt_data_with_deterministic_padding(data, secret, extra) ==
  LET padding == generate_deterministic_padding(BLen(data), 16)
  IN encrypt_data_with_prefix(combine(padding, data), secret, extra)

\* variant: the key and IV are derived from the whole encrypted message
encrypt_header_whole_message(header, encrypted_message, secret) ==
  IF BLen(header) # 32 \/ BLen(encrypted_message) < 16
    THEN Raise("AssertionError")
  ELSE LET msg_id == encrypted_message
           encryption_key == Slice(kdf(secret, LabelHeader), 0, 32)
           encryption_secret == kdf(encryption_key, msg_id)
           key == Slice(encryption_secret, 0, 32)
           iv == Slice(encryption_secret, 32, 48)
       IN Return(CBCEncrypt(key, iv, header))

encrypt_header(header, encrypted_message, secret) ==
  IF BLen(header) # 32 \/ BLen(encrypted_message) < 16
    THEN Raise("AssertionError")
  ELSE LET msg_id == Slice(encrypted_message, 0, 16)
           encryption_key == Slice(kdf(secret, LabelHeader), 0, 32)
           encryption_secret == kdf(encryption_key, msg_id)
           key == Slice(encryption_secret, 0, 32)
           iv == Slice(encryption_secret, 32, 48)
       IN Return(CBCEncrypt(key, iv, header))

\* variant: the IV is taken from bytes 16..31 of the derived secret
decrypt_header_wrong_iv(encrypted_header, encrypted_message, secret) ==
  IF BLen(encrypted_header) # 32 THEN Raise("invalid header size")
  ELSE IF BLen(encrypted_message) < 16 THEN Raise("invalid message size")
  ELSE LET msg_id == Slice(encrypted_message, 0, 16)
           encryption_key == Slice(kdf(secret, LabelHeader), 0, 32)
           encryption_secret == kdf(encryption_key, msg_id)
           key == Slice(encryption_secret, 0, 32)
           iv == Slice(encryption_secret, 16, 32)
       IN Return(CBCDecrypt(key, iv, encrypted_header))

\* variant: the message size check of decrypt_data is used
decrypt_header_min17(encrypted_header, encrypted_message, secret) ==
  IF BLen(encrypted_header) # 32 THEN Raise("invalid header size")
  ELSE IF BLen(encrypted_message) < 17 THEN Raise("invalid message size")
  ELSE LET msg_id == Slice(encrypted_message, 0, 16)
           encryption_key == Slice(kdf(secret, LabelHeader), 0, 32)
           encryption_secret == kdf(encryption_key, msg_id)
           key == Slice(encryption_secret, 0, 32)
           iv == Slice(encryption_secret, 32, 48)
       IN Return(CBCDecrypt(key, iv, encrypted_header))

decrypt_header(encrypted_header, encrypted_message, secret) ==
  IF BLen(encrypted_header) # 32 THEN Raise("invalid header size")
  ELSE IF BLen(encrypted_message) < 16 THEN Raise("invalid message size")
  ELSE LET msg_id == Slice(encrypted_message, 0, 16)
           encryption_key == Slice(kdf(secret, LabelHeader), 0, 32)
           encryption_secret == kdf(encryption_key, msg_id)
           key == Slice(encryption_secret, 0, 32)
           iv == Slice(encryption_secret, 32, 48)
       IN Return(CBCDecrypt(key, iv, encrypted_header))


\* bytes(random.getrandbits(8) for _ in range(length)), from generator state r
generate_random_bytes(length, r) ==
  [bytes |-> Lit([i \in 1..length |-> getrandbits8(RngAfter(r, i - 1))]),
   state |-> RngAfter(r, length)]

(***************************************************************************)
(* decrypt_data, one step per stage of the function.  A frame holds the    *)
(* arguments and the locals; a local not yet assigned is the empty string. *)
(***************************************************************************)
NoFrame ==
  [pc |-> "idle", encrypted_data |-> <<>>, secret |-> <<>>, extra |-> <<>>,
   msg_id |-> <<>>, encrypted_part |-> <<>>, hmac_secret |-> <<>>,
   key |-> <<>>, iv |-> <<>>, decrypted_data |-> <<>>,
   expected_msg_id |-> <<>>, error |-> "none", value |-> <<>>]

decrypt_data_call(encrypted_data, secret, extra) ==
  [NoFrame EXCEPT !.pc = "check_size", !.encrypted_data = encrypted_data,
                  !.secret = secret, !.extra = extra]

\* variant: a 16-byte input passes
decrypt_data_check_size_min16(f) ==
  IF BLen(f.encrypted_data) < 16
    THEN [f EXCEPT !.pc = "raise", !.error = "data is too small"]
  ELSE IF BLen(f.encrypted_data) % 16 # 0
    THEN [f EXCEPT !.pc = "raise", !.error = "data size is not divisible by 16"]
  ELSE [f EXCEPT !.pc = "derive"]

decrypt_data_check_size(f) ==
  IF BLen(f.encrypted_data) < 17
    THEN [f EXCEPT !.pc = "raise", !.error = "data is too small"]
  ELSE IF BLen(f.encrypted_data) % 16 # 0
    THEN [f EXCEPT !.pc = "raise", !.error = "data size is not divisible by 16"]
  ELSE [f EXCEPT !.pc = "derive"]

decrypt_data_derive(f) ==
  LET msg_id == Slice(f.encrypted_data, 0, 16)
      encrypted_part == Slice(f.encrypted_data, 16, BLen(f.encrypted_data))
      large_secret == kdf(f.secret, LabelData)
      hmac_secret == Slice(large_secret, 32, 64)
      encrypt_secret == Slice(large_secret, 0, 32)
      encryption_secret == hmac_sha512(encrypt_secret, msg_id)
  IN [f EXCEPT !.pc = "decrypt", !.msg_id = msg_id,
               !.encrypted_part = encrypted_part, !.hmac_secret = hmac_secret,
               !.key = Slice(encryption_secret, 0, 32),
               !.iv = Slice(encryption_secret, 32, 48)]

\* variant: the padding is examined before the identifier
decrypt_data_decrypt_then_unpad(f) ==
  [f EXCEPT !.pc = "unpad",
            !.decrypted_data = CBCDecrypt(f.key, f.iv, f.encrypted_part)]

decrypt_data_decrypt(f) ==
  [f EXCEPT !.pc = "verify",
            !.decrypted_data = CBCDecrypt(f.key, f.iv, f.encrypted_part)]

\* variant: the identifier is recomputed but not compared
decrypt_data_verify_unchecked(f) ==
  LET large_msg_id ==
        hmac_sha256(f.hmac_secret, mac_input(f.decrypted_data, f.extra))
      expected_msg_id == Slice(large_msg_id, 0, 16)
  IN [f EXCEPT !.pc = "unpad", !.expected_msg_id = expected_msg_id]

decrypt_data_verify(f) ==
  LET large_msg_id ==
        hmac_sha256(f.hmac_secret, mac_input(f.decrypted_data, f.extra))
      expected_msg_id == Slice(large_msg_id, 0, 16)
  IN IF f.msg_id # expected_msg_id
       THEN [f EXCEPT !.pc = "raise", !.expected_msg_id = expected_msg_id,
                      !.error = "msg_id mismatch"]
       ELSE [f EXCEPT !.pc = "unpad", !.expected_msg_id = expected_msg_id]

\* variant: the padding length is not compared with the plaintext length
decrypt_data_unpad_no_upper_bound(f, prefix_size) ==
  IF prefix_size < 16
    THEN [f EXCEPT !.pc = "raise", !.error = "invalid prefix size"]
    ELSE [f EXCEPT !.pc = "return",
                   !.value = Slice(f.decrypted_data, prefix_size,
                                   BLen(f.decrypted_data))]

\* variant: a padding that fills the whole plaintext is refused
decrypt_data_unpad_off_by_one(f, prefix_size) ==
  IF prefix_size >= BLen(f.decrypted_data) \/ prefix_size < 16
    THEN [f EXCEPT !.pc = "raise", !.error = "invalid prefix size"]
    ELSE [f EXCEPT !.pc = "return",
                   !.value = Slice(f.decrypted_data, prefix_size,
                                   BLen(f.decrypted_data))]

decrypt_data_unpad(f, prefix_size) ==
  IF prefix_size > BLen(f.decrypted_data) \/ prefix_size < 16
    THEN [f EXCEPT !.pc = "raise", !.error = "invalid prefix size"]
    ELSE [f EXCEPT !.pc = "return",
                   !.value = Slice(f.decrypted_data, prefix_size,
                                   BLen(f.decrypted_data))]

\* decrypt_data from call to return or raise
RECURSIVE decrypt_data_run(_)
decrypt_data_run(f) ==
  CASE f.pc = "check_size" -> decrypt_data_run(decrypt_data_check_size(f))
    [] f.pc = "derive" -> decrypt_data_run(decrypt_data_derive(f))
    [] f.pc = "decrypt" -> decrypt_data_run(decrypt_data_decrypt(f))
    [] f.pc = "verify" -> decrypt_data_run(decrypt_data_verify(f))
    [] f.pc = "unpad" ->
         decrypt_data_unpad(f, CHOOSE p \in Byte0(f.decrypted_data) : TRUE)
    [] OTHER -> f

decrypt_data(encrypted_data, secret, extra) ==
  LET f == decrypt_data_run(decrypt_data_call(encrypted_data, secret, extra))
  IN [error |-> f.error, value |-> f.value]

(***************************************************************************)
(* The four functions as calls of threads, one step per stage.  A call     *)
(* frame holds the function, its arguments and its locals.                 *)
(***************************************************************************)
NoCall ==
  [op |-> "none", pc |-> "idle", data |-> <<>>, header |-> <<>>,
   encrypted_data |-> <<>>, encrypted_header |-> <<>>,
   encrypted_message |-> <<>>, secret |-> <<>>, extra |-> <<>>,
   padding |-> <<>>, combined |-> <<>>, result |-> <<>>,
   msg_id |-> <<>>, encrypted_part |-> <<>>, hmac_secret |-> <<>>,
   encrypt_secret |-> <<>>, key |-> <<>>, iv |-> <<>>,
   decrypted_data |-> <<>>, expected_msg_id |-> <<>>,
   error |-> "none", value |-> <<>>]

encrypt_call(data, secret, extra) ==
  [NoCall EXCEPT !.op = "encrypt_data_with_deterministic_padding",
                 !.pc = "pad", !.data = data, !.secret = secret,
                 !.extra = extra]

encrypt_pad(f) ==
  LET padding == generate_deterministic_padding(BLen(f.data), 16)
  IN [f EXCEPT !.pc = "msg_id", !.padding = padding,
               !.combined = combine(padding, f.data)]

encrypt_msg_id(f) ==
  IF BLen(f.combined) % 16 # 0
    THEN [f EXCEPT !.pc = "raise", !.error = "AssertionError"]
  ELSE LET large_secret == kdf(f.secret, LabelData)
           hmac_secret == Slice(large_secret, 32, 64)
           large_msg_id ==
             hmac_sha256(hmac_secret, mac_input(f.combined, f.extra))
       IN [f EXCEPT !.pc = "derive",
                    !.encrypt_secret = Slice(large_secret, 0, 32),
                    !.hmac_secret = hmac_secret,
                    !.msg_id = Slice(large_msg_id, 0, 16)]

encrypt_derive(f) ==
  LET result == Zeros(BLen(f.combined) + 16)
      encryption_secret == hmac_sha512(f.encrypt_secret, f.msg_id)
  IN [f EXCEPT !.pc = "encrypt",
               !.result = SetSlice(result, 0, 16, f.msg_id),
               !.key = Slice(encryption_secret, 0, 32),
               !.iv = Slice(encryption_secret, 32, 48)]

\* the key and IV of the first thread that holds them
CachedKey ==
  LET S == {t \in DOMAIN calls : calls[t].key # <<>>}
  IN calls[CHOOSE t \in S : \A u \in S : t <= u]

\* variant: key and IV come from a module-level cache filled by the first call
encrypt_encrypt_cached(f) ==
  LET encrypted == CBCEncrypt(CachedKey.key, CachedKey.iv, f.combined)
      result == SetSlice(f.result, 16, BLen(f.result), encrypted)
  IN [f EXCEPT !.pc = "return", !.result = result, !.value = result]

encrypt_encrypt(f) ==
  LET encrypted == CBCEncrypt(f.key, f.iv, f.combined)
      result == SetSlice(f.result, 16, BLen(f.result), encrypted)
  IN [f EXCEPT !.pc = "return", !.result = result, !.value = result]

encrypt_header_call(header, encrypted_message, secret) ==
  [NoCall EXCEPT !.op = "encrypt_header", !.pc = "derive",
                 !.header = header, !.encrypted_message = encrypted_message,
                 !.secret = secret]

encrypt_header_derive(f) ==
  IF BLen(f.header) # 32 \/ BLen(f.encrypted_message) < 16
    THEN [f EXCEPT !.pc = "raise", !.error = "AssertionError"]
  ELSE LET msg_id == Slice(f.encrypted_message, 0, 16)
           encryption_key == Slice(kdf(f.secret, LabelHeader), 0, 32)
           encryption_secret == kdf(encryption_key, msg_id)
       IN [f EXCEPT !.pc = "encrypt", !.msg_id = msg_id,
                    !.key = Slice(encryption_secret, 0, 32),
                    !.iv = Slice(encryption_secret, 32, 48)]

encrypt_header_encrypt(f) ==
  [f EXCEPT !.pc = "return", !.value = CBCEncrypt(f.key, f.iv, f.header)]

decrypt_header_call(encrypted_header, encrypted_message, secret) ==
  [NoCall EXCEPT !.op = "decrypt_header", !.pc = "derive",
                 !.encrypted_header = encrypted_header,
                 !.encrypted_message = encrypted_message, !.secret = secret]

decrypt_header_derive(f) ==
  IF BLen(f.encrypted_header) # 32
    THEN [f EXCEPT !.pc = "raise", !.error = "invalid header size"]
  ELSE IF BLen(f.encrypted_message) < 16
    THEN [f EXCEPT !.pc = "raise", !.error = "invalid message size"]
  ELSE LET msg_id == Slice(f.encrypted_message, 0, 16)
           encryption_key == Slice(kdf(f.secret, LabelHeader), 0, 32)
           encryption_secret == kdf(encryption_key, msg_id)
       IN [f EXCEPT !.pc = "decrypt", !.msg_id = msg_id,
                    !.key = Slice(encryption_secret, 0, 32),
                    !.iv = Slice(encryption_secret, 32, 48)]

decrypt_header_decrypt(f) ==
  [f EXCEPT !.pc = "return",
            !.value = CBCDecrypt(f.key, f.iv, f.encrypted_header)]

decrypt_data_thread_call(encrypted_data, secret, extra) ==
  [NoCall EXCEPT !.op = "decrypt_data", !.pc = "check_size",
                 !.encrypted_data = encrypted_data, !.secret = secret,
                 !.extra = extra]

\* the frames the next step of call f can lead to
CallStep(f) ==
  CASE f.op = "encrypt_data_with_deterministic_padding" ->
         (CASE f.pc = "pad" -> {encrypt_pad(f)}
            [] f.pc = "msg_id" -> {encrypt_msg_id(f)}
            [] f.pc = "derive" -> {encrypt_derive(f)}
            [] f.pc = "encrypt" -> {encrypt_encrypt(f)}
            [] OTHER -> {})
    [] f.op = "encrypt_header" ->
         (CASE f.pc = "derive" -> {encrypt_header_derive(f)}
            [] f.pc = "encrypt" -> {encrypt_header_encrypt(f)}
            [] OTHER -> {})
    [] f.op = "decrypt_header" ->
         (CASE f.pc = "derive" -> {decrypt_header_derive(f)}
            [] f.pc = "decrypt" -> {decrypt_header_decrypt(f)}
            [] OTHER -> {})
    [] f.op = "decrypt_data" ->
         (CASE f.pc = "check_size" -> {decrypt_data_check_size(f)}
            [] f.pc = "derive" -> {decrypt_data_derive(f)}
            [] f.pc = "decrypt" -> {decrypt_data_decrypt(f)}
            [] f.pc = "verify" -> {decrypt_data_verify(f)}
            [] f.pc = "unpad" ->
                 {decrypt_data_unpad(f, p) : p \in Byte0(f.decrypted_data)}
            [] OTHER -> {})
    [] OTHER -> {}

\* what the call of frame f gives when it runs alone
CallAlone(f) ==
  CASE f.op = "encrypt_data_with_deterministic_padding" ->
         encrypt_data_with_deterministic_padding(f.data, f.secret, f.extra)
    [] f.op = "encrypt_header" ->
         encrypt_header(f.header, f.encrypted_message, f.secret)
    [] f.op = "decrypt_header" ->
         decrypt_header(f.encrypted_header, f.encrypted_message, f.secret)
    [] f.op = "decrypt_data" ->
         decrypt_data(f.encrypted_data, f.secret, f.extra)

(***************************************************************************)
(* Inputs                                                                  *)
(***************************************************************************)
MaxDataSize == 17
MaxExtraSize == 2

Fill(n, b) == Lit([i \in 1..n |-> b])

SecretA == Fill(32, 170)
SecretB == Cat(Fill(31, 170), Fill(1, 171))
Secrets == {SecretA, SecretB}

Extras == {Zeros(n) : n \in 0..MaxExtraSize} \cup {Fill(1, 1)}

\* b"Hello, World!"
Hello == Lit(<<72, 101, 108, 108, 111, 44, 32, 87, 111, 114, 108, 100, 33>>)

Datas == {Fill(n, 120) : n \in 0..MaxDataSize} \cup {Hello}

\* candidates for an already padded plaintext: first byte p, then zeros
Prefixed(p, n) == Cat(Fill(1, p), Zeros(n - 1))
PaddedPlaintexts ==
  {Prefixed(p, n) : p \in {0, 15, 16, 32, 33, 255}, n \in {16, 32}}
    \cup {<<>>, Zeros(8)}

\* a block that differs from block b in one bit
FlipBit(b) == Sym("flip", <<b>>, BLen(b))

\* what a decrypting party may be handed in place of message m
SamePrefixTampered(m) ==
  LET n == BLen(m)
      id == Slice(m, 0, 16)
  IN IF n < 32 THEN {}
     ELSE {Cat(id, Zeros(n - 16)),
           Cat(Slice(m, 0, n - 16), Zeros(16)),
           Cat(Slice(m, 0, n - 16), FlipBit(Slice(m, n - 16, n))),
           Cat(Cat(id, FlipBit(Slice(m, 16, 32))), Slice(m, 32, n)),
           Cat(Cat(id, Slice(m, n - 16, n)), Slice(m, 16, n - 16))}
            \ {m}

Resized(m) ==
  LET n == BLen(m)
  IN {Slice(m, 0, 16), Slice(m, 0, n - 1), Slice(m, 0, n - 16),
      Cat(m, Zeros(1)), Cat(m, Zeros(16)), <<>>, Zeros(17), Zeros(32)}

DecryptInputs(m) == {m} \cup SamePrefixTampered(m) \cup Resized(m)

(***************************************************************************)
(* State machine: a caller encrypts a message, then hands some byte        *)
(* string, secret and extra to decrypt_data.                               *)
(***************************************************************************)
NumThreads == 2

Threads == 1..NumThreads

(***************************************************************************)
(* binascii.hexlify(b).decode('ascii') and binascii.unhexlify(s): two      *)
(* lower-case hexadecimal digits for each byte, as character codes.  The   *)
(* digits of bytes that are the output of a primitive are a function of    *)
(* those bytes.                                                            *)
(***************************************************************************)
HexDigit(d) == IF d < 10 THEN 48 + d ELSE 87 + d

HexValue(c) == IF c <= 57 THEN c - 48 ELSE c - 87

hexlify_chunk(c) ==
  IF c.op = "lit"
    THEN Lit([i \in 1..(2 * Len(c.lit)) |->
                IF i % 2 = 1 THEN HexDigit(c.lit[(i + 1) \div 2] \div 16)
                ELSE HexDigit(c.lit[i \div 2] % 16)])
  ELSE Sym("hexlify", <<c>>, 2 * (c.hi - c.lo))

RECURSIVE hexlify(_)
hexlify(b) ==
  IF b = <<>> THEN <<>> ELSE Cat(hexlify_chunk(b[1]), hexlify(Tail(b)))

unhexlify_chunk(c) ==
  IF c.op = "lit"
    THEN Lit([i \in 1..(Len(c.lit) \div 2) |->
                HexValue(c.lit[2 * i - 1]) * 16 + HexValue(c.lit[2 * i])])
  ELSE IF c.op = "hexlify" /\ c.lo = 0 /\ c.hi = 2 * (c.args[1].hi - c.args[1].lo)
    THEN <<c.args[1]>>
  ELSE Sym("unhexlify", <<c>>, (c.hi - c.lo) \div 2)

RECURSIVE unhexlify(_)
unhexlify(s) ==
  IF s = <<>> THEN <<>> ELSE Cat(unhexlify_chunk(s[1]), unhexlify(Tail(s)))

(***************************************************************************)
(* generate_test_vectors, print_cpp_header and the main block, one step    *)
(* per statement group.  The harness record holds the list of vectors, the *)
(* loop variable, the locals of the loop body, the state of the fixture    *)
(* file and what has been printed to it.                                   *)
(***************************************************************************)
NumVectors == 7

SmallExtra == Lit(<<115, 109, 97, 108, 108, 32, 101, 120, 116, 114, 97>>)

SpecialChars == Lit([i \in 1..31 |-> 32 + i])

HelloUnicode ==
  Lit(<<72, 101, 108, 108, 111, 44, 32, 228, 184, 150, 231, 149, 140, 33>>)

FieldNames ==
  <<"name", "secret", "data", "extra", "header", "encrypted",
    "encrypted_header">>

NoHarness ==
  [pc |-> "idle", vectors |-> <<>>, i |-> 0,
   secret |-> <<>>, data |-> <<>>, extra |-> <<>>, header |-> <<>>,
   encrypted |-> <<>>, encrypted_header |-> <<>>,
   error |-> "none", file |-> "none",
   struct |-> <<>>, records |-> <<>>]

\* one dict of the test_vectors list; the key of a dict without "encrypted"
\* reads as the empty string
test_vector(name, secret, data, extra, header) ==
  [name |-> name, secret |-> hexlify(secret), data |-> hexlify(data),
   extra |-> hexlify(extra), header |-> hexlify(header),
   encrypted |-> <<>>, encrypted_header |-> <<>>]

\* the secret, the header and the list, from generator state r
generate_test_vectors_catalogue(r) ==
  LET secret == generate_random_bytes(32, r)
      header == generate_random_bytes(32, secret.state)
      random_data == generate_random_bytes(64, header.state)
      long_data == generate_random_bytes(300, random_data.state)
      long_extra == generate_random_bytes(300, long_data.state)
      s == secret.bytes
      h == header.bytes
  IN [vectors |->
        <<test_vector("empty_message", s, <<>>, <<>>, h),
          test_vector("simple_message", s, Hello, <<>>, h),
          test_vector("long_message", s, Lit([i \in 1..200 |-> 120]), <<>>, h),
          test_vector("random_message", s, random_data.bytes, SmallExtra, h),
          test_vector("very_long_message", s, long_data.bytes,
                      long_extra.bytes, h),
          test_vector("message_with_special_chars", s, SpecialChars, <<>>, h),
          test_vector("message_with_unicode", s, HelloUnicode, <<>>, h)>>,
      state |-> long_extra.state]

generate_test_vectors_raise(h, e) == [h EXCEPT !.pc = "aborted", !.error = e]

generate_test_vectors_encrypt(h) ==
  LET vec == h.vectors[h.i]
      secret == unhexlify(vec.secret)
      data == unhexlify(vec.data)
      extra == unhexlify(vec.extra)
      header == unhexlify(vec.header)
      r == encrypt_data_with_deterministic_padding(data, secret, extra)
  IN IF r.error # "none" THEN generate_test_vectors_raise(h, r.error)
     ELSE [h EXCEPT !.secret = secret, !.data = data, !.extra = extra,
                    !.header = header, !.encrypted = r.value,
                    !.pc = "encrypt_header"]

generate_test_vectors_encrypt_header(h) ==
  LET r == encrypt_header(h.header, h.encrypted, h.secret)
  IN IF r.error # "none" THEN generate_test_vectors_raise(h, r.error)
     ELSE [h EXCEPT !.encrypted_header = r.value, !.pc = "decrypt"]

generate_test_vectors_decrypt(h) ==
  LET r == decrypt_data(h.encrypted, h.secret, h.extra)
  IN IF r.error # "none" THEN generate_test_vectors_raise(h, r.error)
     ELSE IF r.value # h.data
       THEN generate_test_vectors_raise(h, "Decryption failed for test vector")
     ELSE [h EXCEPT !.pc = "decrypt_header"]

generate_test_vectors_decrypt_header(h) ==
  LET r == decrypt_header(h.encrypted_header, h.encrypted, h.secret)
  IN IF r.error # "none" THEN generate_test_vectors_raise(h, r.error)
     ELSE IF r.value # h.header
       THEN generate_test_vectors_raise(h,
              "Header decryption failed for test vector")
     ELSE [h EXCEPT !.pc = "store"]

\* the last two statements of the loop body, and the next iteration or the
\* return to the main block
generate_test_vectors_store(h) ==
  [h EXCEPT !.vectors[h.i].encrypted = hexlify(h.encrypted),
            !.vectors[h.i].encrypted_header = hexlify(h.encrypted_header),
            !.i = IF h.i < Len(h.vectors) THEN h.i + 1 ELSE 0,
            !.pc = IF h.i < Len(h.vectors) THEN "encrypt" ELSE "open"]

\* os.makedirs and open(header_path, "w")
main_open(h) == [h EXCEPT !.file = "open", !.pc = "preamble"]

\* the lines before the loop: the declaration of struct TestVector
print_cpp_header_preamble(h) ==
  [h EXCEPT !.struct = FieldNames,
            !.i = IF h.vectors = <<>> THEN 0 ELSE 1,
            !.pc = IF h.vectors = <<>> THEN "trailer" ELSE "records"]

print_cpp_header_record_header_last(h) ==
  LET vec == h.vectors[h.i]
  IN [h EXCEPT !.records = Append(@, <<vec.name, vec.secret, vec.data,
                                       vec.extra, vec.encrypted,
                                       vec.encrypted_header, vec.header>>),
               !.i = IF h.i < Len(h.vectors) THEN h.i + 1 ELSE 0,
               !.pc = IF h.i < Len(h.vectors) THEN "records" ELSE "trailer"]

\* one iteration of the loop of print_cpp_header
print_cpp_header_record(h) ==
  LET vec == h.vectors[h.i]
  IN [h EXCEPT !.records = Append(@, <<vec.name, vec.secret, vec.data,
                                       vec.extra, vec.header, vec.encrypted,
                                       vec.encrypted_header>>),
               !.i = IF h.i < Len(h.vectors) THEN h.i + 1 ELSE 0,
               !.pc = IF h.i < Len(h.vectors) THEN "records" ELSE "trailer"]

\* the lines after the loop, and the end of the with block
print_cpp_header_trailer(h) == [h EXCEPT !.file = "closed", !.pc = "done"]

NoMsg ==
  [fn |-> "none", data |-> <<>>, secret |-> <<>>, extra |-> <<>>,
   padding |-> <<>>, padded |-> <<>>, error |-> "none", value |-> <<>>]

NoHdr ==
  [fn |-> "none", header |-> <<>>, encrypted_message |-> <<>>,
   secret |-> <<>>, error |-> "none", value |-> <<>>]

NoHdec ==
  [fn |-> "none", encrypted_header |-> <<>>, encrypted_message |-> <<>>,
   secret |-> <<>>, error |-> "none", value |-> <<>>]

NoPrev == [msg |-> NoMsg, hdr |-> NoHdr]

Init ==
  /\ pc = "idle"
  /\ rng = [state |-> 0, draws |-> 0]
  /\ msg = NoMsg
  /\ hdr = NoHdr
  /\ dec = NoFrame
  /\ hdec = NoHdec
  /\ prev = NoPrev
  /\ calls = [t \in Threads |-> NoCall]
  /\ harness = NoHarness

EncryptOf(D, S, X) ==
  /\ pc = "idle"
  /\ \E data \in D, secret \in S, extra \in X :
       LET padding == generate_deterministic_padding(BLen(data), 16)
           r == encrypt_data_with_deterministic_padding(data, secret, extra)
       IN msg' = [fn |-> "padding", data |-> data, secret |-> secret,
                  extra |-> extra, padding |-> padding,
                  padded |-> combine(padding, data),
                  error |-> r.error, value |-> r.value]
  /\ pc' = "have_msg"
  /\ UNCHANGED <<calls, harness, rng, hdr, dec, hdec, prev>>

Encrypt == EncryptOf(Datas, Secrets, Extras)

EncryptPrefix ==
  /\ pc = "idle"
  /\ \E data \in PaddedPlaintexts, secret \in Secrets, extra \in Extras :
       LET r == encrypt_data_with_prefix(data, secret, extra)
       IN msg' = [fn |-> "prefix", data |-> data, secret |-> secret,
                  extra |-> extra, padding |-> <<>>, padded |-> data,
                  error |-> r.error, value |-> r.value]
  /\ pc' = "have_msg"
  /\ UNCHANGED <<calls, harness, rng, hdr, dec, hdec, prev>>

DecryptCall ==
  /\ pc = "have_msg"
  /\ \E e \in DecryptInputs(msg.value), secret \in Secrets, extra \in Extras :
       dec' = decrypt_data_call(e, secret, extra)
  /\ pc' = "decrypting"
  /\ UNCHANGED <<calls, harness, rng, msg, hdr, hdec, prev>>

DecryptStep(at, f) ==
  /\ pc = "decrypting"
  /\ dec.pc = at
  /\ dec' = f
  /\ pc' = IF f.pc \in {"return", "raise"} THEN "done" ELSE pc
  /\ UNCHANGED <<calls, harness, rng, msg, hdr, hdec, prev>>

DecryptCheckSize == DecryptStep("check_size", decrypt_data_check_size(dec))

DecryptDerive == DecryptStep("derive", decrypt_data_derive(dec))

DecryptDecrypt == DecryptStep("decrypt", decrypt_data_decrypt(dec))

DecryptVerify == DecryptStep("verify", decrypt_data_verify(dec))

DecryptUnpad ==
  /\ dec.pc = "unpad"
  /\ \E prefix_size \in Byte0(dec.decrypted_data) :
       DecryptStep("unpad", decrypt_data_unpad(dec, prefix_size))

Next ==
  \/ Encrypt
  \/ EncryptPrefix
  \/ DecryptCall
  \/ DecryptCheckSize
  \/ DecryptDerive
  \/ DecryptDecrypt
  \/ DecryptVerify
  \/ DecryptUnpad

Spec == Init /\ [][Next]_vars


(***************************************************************************)
(* State machine of the header functions: a caller encrypts a message,     *)
(* encrypts a header against some byte string, then hands some encrypted   *)
(* header, byte string and secret to decrypt_header.                       *)
(***************************************************************************)
MaxHeaderDataSize == 1

HeaderDatas == {Fill(n, 120) : n \in 0..MaxHeaderDataSize}

HeaderExtras == {<<>>, Zeros(1)}

HeaderA == Fill(32, 17)
HeaderB == Cat(Fill(16, 17), Fill(16, 34))
Headers == {HeaderA, HeaderB, Fill(31, 17), Fill(33, 17), <<>>}

\* what may be passed as encrypted_message in place of message m
HeaderMessages(m) ==
  {m, Slice(m, 0, 16), Slice(m, 0, 15), Cat(Slice(m, 0, 16), Zeros(16)),
   Zeros(16), <<>>}

\* what may be passed as encrypted_header in place of the encrypted header h
EncryptedHeaders(h) ==
  {h, Zeros(32), Slice(h, 0, 16), Cat(h, Zeros(16)),
   Cat(Slice(h, 16, 32), Slice(h, 0, 16))}

EncryptForHeader == EncryptOf(HeaderDatas, Secrets, HeaderExtras)

EncryptHeaderOf(H, M, S) ==
  /\ pc = "have_msg"
  /\ \E header \in H, m \in M, secret \in S :
       LET r == encrypt_header(header, m, secret)
       IN hdr' = [fn |-> "encrypt_header", header |-> header,
                  encrypted_message |-> m, secret |-> secret,
                  error |-> r.error, value |-> r.value]
  /\ pc' = "have_hdr"
  /\ UNCHANGED <<calls, harness, rng, msg, dec, hdec, prev>>

EncryptHeader == EncryptHeaderOf(Headers, HeaderMessages(msg.value), Secrets)

DecryptHeader ==
  /\ pc = "have_hdr"
  /\ \E eh \in EncryptedHeaders(hdr.value),
        m \in HeaderMessages(msg.value), secret \in Secrets :
       LET r == decrypt_header(eh, m, secret)
       IN hdec' = [fn |-> "decrypt_header", encrypted_header |-> eh,
                   encrypted_message |-> m, secret |-> secret,
                   error |-> r.error, value |-> r.value]
  /\ pc' = "done"
  /\ UNCHANGED <<calls, harness, rng, msg, hdr, dec, prev>>

NextHeader ==
  \/ EncryptForHeader
  \/ EncryptHeader
  \/ DecryptHeader

SpecHeader == Init /\ [][NextHeader]_vars

(***************************************************************************)
(* State machine of repeated runs: a caller encrypts a message and a       *)
(* header, draws random bytes in between as the test-vector generator      *)
(* does, and encrypts again.  prev keeps the calls of the run before.      *)
(***************************************************************************)
MaxDraws == 2

RunDatas == {<<>>, Fill(1, 120)}

RunExtras == {<<>>, Zeros(1)}

EncryptRun == EncryptOf(RunDatas, {SecretA}, RunExtras)

EncryptHeaderRun ==
  EncryptHeaderOf({HeaderA, HeaderB}, {msg.value, Zeros(16)}, Secrets)

GenerateRandomBytes ==
  /\ pc \in {"idle", "have_msg", "have_hdr"}
  /\ rng.draws < MaxDraws
  /\ rng' = [state |-> generate_random_bytes(32, rng.state).state,
             draws |-> rng.draws + 1]
  /\ UNCHANGED <<calls, harness, pc, msg, hdr, dec, hdec, prev>>

NextRun ==
  /\ pc = "have_hdr"
  /\ prev = NoPrev
  /\ prev' = [msg |-> msg, hdr |-> hdr]
  /\ msg' = NoMsg
  /\ hdr' = NoHdr
  /\ pc' = "idle"
  /\ UNCHANGED <<calls, harness, rng, dec, hdec>>

NextRuns ==
  \/ EncryptRun
  \/ EncryptHeaderRun
  \/ GenerateRandomBytes
  \/ NextRun

SpecRuns == Init /\ [][NextRuns]_vars

(***************************************************************************)
(* State machine of concurrent calls: every thread calls any of the four   *)
(* functions, any number of times, and the steps of the calls interleave.  *)
(***************************************************************************)
ThreadDatas == {<<>>, Hello}

ThreadMessage ==
  encrypt_data_with_deterministic_padding(Hello, SecretA, <<>>).value

ThreadMessages == {ThreadMessage, Slice(ThreadMessage, 0, 16)}

ThreadHeader == encrypt_header(HeaderA, ThreadMessage, SecretA).value

ThreadCall(t, f) ==
  /\ calls[t].pc \in {"idle", "return", "raise"}
  /\ calls' = [calls EXCEPT ![t] = f]
  /\ UNCHANGED <<pc, rng, msg, hdr, dec, hdec, prev, harness>>

CallEncrypt ==
  \E t \in Threads, data \in ThreadDatas :
    ThreadCall(t, encrypt_call(data, SecretA, <<>>))

CallDecryptData ==
  \E t \in Threads, e \in ThreadMessages, secret \in Secrets :
    ThreadCall(t, decrypt_data_thread_call(e, secret, <<>>))

CallEncryptHeader ==
  \E t \in Threads, m \in {ThreadMessage, <<>>} :
    ThreadCall(t, encrypt_header_call(HeaderA, m, SecretA))

CallDecryptHeader ==
  \E t \in Threads, eh \in {ThreadHeader, Zeros(16)}, secret \in Secrets :
    ThreadCall(t, decrypt_header_call(eh, ThreadMessage, secret))

ThreadStep ==
  \E t \in Threads :
    /\ calls[t].pc \notin {"idle", "return", "raise"}
    /\ \E f \in CallStep(calls[t]) : calls' = [calls EXCEPT ![t] = f]
    /\ UNCHANGED <<pc, rng, msg, hdr, dec, hdec, prev, harness>>

NextThreads ==
  \/ CallEncrypt
  \/ CallDecryptData
  \/ CallEncryptHeader
  \/ CallDecryptHeader
  \/ ThreadStep

SpecThreads == Init /\ [][NextThreads]_vars

(***************************************************************************)
(* State machine of the main block: the generator starts in any state (the *)
(* random module seeds itself from the operating system), the vectors are  *)
(* generated and self-checked, then the fixture file is written.           *)
(***************************************************************************)
MaxSeed == 2

Seeds == 0..MaxSeed

InitHarness ==
  /\ pc = "idle"
  /\ rng \in {[state |-> s, draws |-> 0] : s \in Seeds}
  /\ msg = NoMsg
  /\ hdr = NoHdr
  /\ dec = NoFrame
  /\ hdec = NoHdec
  /\ prev = NoPrev
  /\ calls = [t \in Threads |-> NoCall]
  /\ harness = NoHarness

HarnessStep(at, h) ==
  /\ harness.pc = at
  /\ harness' = h
  /\ UNCHANGED <<pc, rng, msg, hdr, dec, hdec, prev, calls>>

GenerateTestVectors ==
  /\ harness.pc = "idle"
  /\ LET c == generate_test_vectors_catalogue(rng.state)
     IN /\ harness' = [harness EXCEPT !.vectors = c.vectors, !.i = 1,
                                      !.pc = "encrypt"]
        /\ rng' = [state |-> c.state, draws |-> rng.draws + 5]
  /\ UNCHANGED <<pc, msg, hdr, dec, hdec, prev, calls>>

HarnessEncrypt ==
  HarnessStep("encrypt", generate_test_vectors_encrypt(harness))

HarnessEncryptHeader ==
  HarnessStep("encrypt_header", generate_test_vectors_encrypt_header(harness))

HarnessDecrypt ==
  HarnessStep("decrypt", generate_test_vectors_decrypt(harness))

HarnessDecryptHeader ==
  HarnessStep("decrypt_header", generate_test_vectors_decrypt_header(harness))

HarnessStore == HarnessStep("store", generate_test_vectors_store(harness))

MainOpen == HarnessStep("open", main_open(harness))

PrintPreamble == HarnessStep("preamble", print_cpp_header_preamble(harness))

PrintRecord == HarnessStep("records", print_cpp_header_record(harness))

PrintTrailer == HarnessStep("trailer", print_cpp_header_trailer(harness))

NextHarness ==
  \/ GenerateTestVectors
  \/ HarnessEncrypt
  \/ HarnessEncryptHeader
  \/ HarnessDecrypt
  \/ HarnessDecryptHeader
  \/ HarnessStore
  \/ MainOpen
  \/ PrintPreamble
  \/ PrintRecord
  \/ PrintTrailer

SpecHarness == InitHarness /\ [][NextHarness]_vars

(***************************************************************************)
(* State machine of the identifier input: the bytes handed to hmac_sha256  *)
(* are computed for one pair (data, extra), then for a second one.         *)
(***************************************************************************)
MaxMacDataSize == 2

MaxMacExtraSize == 4

RECURSIVE BitStrings(_)
BitStrings(n) ==
  IF n = 0 THEN {<<>>}
  ELSE LET shorter == BitStrings(n - 1)
       IN shorter \cup {Append(s, b) : s \in {t \in shorter : Len(t) = n - 1},
                                       b \in {0, 1}}

MacDatas == {Lit(s) : s \in BitStrings(MaxMacDataSize)}

MacExtras == {Lit(s) : s \in BitStrings(MaxMacExtraSize)}

MacInputOf(data, extra) ==
  [NoMsg EXCEPT !.fn = "mac_input", !.data = data, !.extra = extra,
                !.value = mac_input(data, extra)]

MacInputFirst ==
  /\ pc = "idle"
  /\ \E data \in MacDatas, extra \in MacExtras :
       prev' = [prev EXCEPT !.msg = MacInputOf(data, extra)]
  /\ pc' = "mac_first"
  /\ UNCHANGED <<calls, harness, rng, msg, hdr, dec, hdec>>

MacInputSecond ==
  /\ pc = "mac_first"
  /\ \E data \in MacDatas, extra \in MacExtras :
       msg' = MacInputOf(data, extra)
  /\ pc' = "mac_both"
  /\ UNCHANGED <<calls, harness, rng, hdr, dec, hdec, prev>>

NextMacInput == MacInputFirst \/ MacInputSecond

SpecMacInput == Init /\ [][NextMacInput]_vars

(***************************************************************************)
(* Properties                                                              *)
(***************************************************************************)
SizeErrors == {"data is too small", "data size is not divisible by 16"}

\* decrypt_data has finished on the message, secret and extra of the encryption
DecryptedOwn ==
  /\ pc = "done"
  /\ msg.error = "none"
  /\ dec.encrypted_data = msg.value
  /\ dec.secret = msg.secret
  /\ dec.extra = msg.extra

\* C1: decrypt_data of the output of encrypt_data_with_deterministic_padding,
\* with the same secret and extra, returns exactly the data and raises nothing.
C1_RoundTrip ==
  (DecryptedOwn /\ msg.fn = "padding") =>
     /\ dec.pc = "return"
     /\ dec.error = "none"
     /\ dec.value = msg.data

C1_Witness ==
  /\ DecryptedOwn
  /\ msg.fn = "padding"
  /\ msg.data = <<>>
  /\ msg.extra # <<>>
  /\ dec.pc = "return"
  /\ dec.value = <<>>

\* decrypt_data has finished on the identifier of the message followed by a
\* different ciphertext of the same length, with the secret and extra of the
\* encryption
DecryptedTampered ==
  /\ pc = "done"
  /\ msg.error = "none"
  /\ dec.secret = msg.secret
  /\ dec.extra = msg.extra
  /\ dec.encrypted_data # msg.value
  /\ BLen(dec.encrypted_data) = BLen(msg.value)
  /\ Slice(dec.encrypted_data, 0, 16) = Slice(msg.value, 0, 16)

\* C2: a ciphertext replaced by a different one of the same length under the
\* unchanged identifier makes decrypt_data raise the msg_id mismatch and
\* return no plaintext.
C2_TamperDetected ==
  DecryptedTampered =>
     /\ dec.pc = "raise"
     /\ dec.error = "msg_id mismatch"
     /\ dec.value = <<>>

C2_Witness ==
  /\ DecryptedTampered
  /\ msg.fn = "padding"
  /\ BLen(msg.value) = 48
  /\ Slice(dec.encrypted_data, 0, 32) = Slice(msg.value, 0, 32)
  /\ dec.error = "msg_id mismatch"

\* decrypt_data has finished on an encrypted message (identifier and at
\* least one block) with another secret or another extra
DecryptedWrongKey ==
  /\ pc = "done"
  /\ msg.error = "none"
  /\ BLen(msg.value) >= 32
  /\ dec.encrypted_data = msg.value
  /\ (dec.secret # msg.secret \/ dec.extra # msg.extra)

\* C3: decrypt_data with a different secret or a different extra (also one
\* that differs only in length) raises the msg_id mismatch and returns no
\* plaintext.
C3_WrongKeyRejected ==
  DecryptedWrongKey =>
     /\ dec.pc = "raise"
     /\ dec.error = "msg_id mismatch"
     /\ dec.value = <<>>

C3_Witness ==
  /\ DecryptedWrongKey
  /\ dec.secret = msg.secret
  /\ msg.extra = Zeros(1)
  /\ dec.extra = Zeros(2)
  /\ dec.error = "msg_id mismatch"

\* C6: decrypt_data raises the size error, with no key derived and nothing
\* decrypted, for every input shorter than 17 bytes or not a multiple of 16;
\* every input that is a multiple of 16 and at least 32 passes the size check.
C6_SizeValidation ==
  (dec.pc \notin {"idle", "check_size"}) =>
     IF BLen(dec.encrypted_data) < 17 \/ BLen(dec.encrypted_data) % 16 # 0
       THEN /\ dec.pc = "raise"
            /\ dec.error \in SizeErrors
            /\ dec.msg_id = <<>>
            /\ dec.hmac_secret = <<>>
            /\ dec.key = <<>>
            /\ dec.iv = <<>>
            /\ dec.decrypted_data = <<>>
            /\ dec.expected_msg_id = <<>>
            /\ dec.value = <<>>
       ELSE /\ BLen(dec.encrypted_data) >= 32
            /\ dec.error \notin SizeErrors

C6_Witness ==
  /\ dec.pc = "raise"
  /\ BLen(dec.encrypted_data) = 33
  /\ dec.error = "data size is not divisible by 16"
  /\ dec.key = <<>>

\* C7: the padded plaintext (padding, then data) has a length that is a
\* multiple of 16 and exceeds the data length by at least 16, so the assertion
\* of encrypt_data_with_prefix holds on this path.
C7_PaddingInvariant ==
  (msg.fn = "padding") =>
     /\ msg.padded = Cat(msg.padding, msg.data)
     /\ BLen(msg.padded) % 16 = 0
     /\ BLen(msg.padded) - BLen(msg.data) >= 16
     /\ msg.error = "none"

C7_Witness ==
  /\ msg.fn = "padding"
  /\ BLen(msg.data) = 17
  /\ BLen(msg.padded) = 48
  /\ msg.error = "none"

round_up(n, m) == ((n + m - 1) \div m) * m

\* C8: with min_padding = 16 the padding length ((16 + 15 + n) & -16) - n is
\* round_up(16 + n, 16) - n, lies in 16..31, and the padding block is that
\* length in byte 0 followed by zeros.
C8_PaddingFormula ==
  (msg.fn = "padding") =>
     LET n == BLen(msg.data)
         p == round_up(16 + n, 16) - n
     IN /\ padding_size(n, 16) = p
        /\ BLen(msg.padding) = p
        /\ p \in 16..31
        /\ msg.padding = Cat(Fill(1, p), Zeros(p - 1))

C8_Witness ==
  /\ msg.fn = "padding"
  /\ BLen(msg.data) = 1
  /\ msg.padding = Cat(Fill(1, 31), Zeros(30))

\* C9: an encrypted message is 16 bytes of identifier (the head of an
\* HMAC-SHA256 output) followed by a ciphertext as long as the padded
\* plaintext; over pad(data) its length is a multiple of 16 and at least 32,
\* and decrypt_data does not raise a size error on it.
C9_MessageLayout ==
  (msg.fn # "none" /\ msg.error = "none") =>
     /\ BLen(msg.value) = 16 + BLen(msg.padded)
     /\ msg.value[1].op = "hmac_sha256"
     /\ msg.value[1].lo = 0
     /\ msg.value[1].hi = 16
     /\ BLen(Slice(msg.value, 16, BLen(msg.value))) = BLen(msg.padded)
     /\ (msg.fn = "padding") =>
           /\ BLen(msg.value) % 16 = 0
           /\ BLen(msg.value) >= 32
           /\ (dec.encrypted_data = msg.value /\ dec.pc # "check_size") =>
                 dec.error \notin SizeErrors

C9_Witness ==
  /\ msg.fn = "padding"
  /\ msg.error = "none"
  /\ BLen(msg.value) = 32
  /\ dec.encrypted_data = msg.value
  /\ dec.pc = "derive"


\* decrypt_header was handed the output of encrypt_header with the message
\* and secret of that call
DecryptedOwnHeader ==
  /\ hdr.fn = "encrypt_header"
  /\ hdr.error = "none"
  /\ hdec.fn = "decrypt_header"
  /\ hdec.encrypted_header = hdr.value
  /\ hdec.encrypted_message = hdr.encrypted_message
  /\ hdec.secret = hdr.secret

\* C4: for a 32-byte header, any secret and any encrypted message of at
\* least 16 bytes, decrypt_header of the output of encrypt_header with the
\* same message and secret returns exactly the header.
C4_HeaderRoundTrip ==
  /\ (hdr.fn = "encrypt_header") =>
        (hdr.error = "none" <=>
           (BLen(hdr.header) = 32 /\ BLen(hdr.encrypted_message) >= 16))
  /\ DecryptedOwnHeader => (hdec.error = "none" /\ hdec.value = hdr.header)

C4_Witness ==
  /\ DecryptedOwnHeader
  /\ hdr.header = HeaderB
  /\ BLen(hdr.encrypted_message) = 16
  /\ hdec.value = HeaderB

SameMsgCall(a, b) ==
  /\ a.fn = b.fn
  /\ a.data = b.data
  /\ a.secret = b.secret
  /\ a.extra = b.extra

SameHdrCall(a, b) ==
  /\ a.fn = b.fn
  /\ a.header = b.header
  /\ a.encrypted_message = b.encrypted_message
  /\ a.secret = b.secret

C10_HeaderNoAuth ==
  (hdec.fn = "decrypt_header") =>
     /\ hdec.error # "none" <=>
          (BLen(hdec.encrypted_header) # 32 \/ BLen(hdec.encrypted_message) < 16)
     /\ hdec.error = "none" => BLen(hdec.value) = 32
     /\ hdec.error # "none" => hdec.value = <<>>

C10_Witness ==
  /\ hdr.fn = "encrypt_header"
  /\ hdr.error = "none"
  /\ hdec.fn = "decrypt_header"
  /\ hdec.encrypted_header = hdr.value
  /\ hdec.encrypted_message # hdr.encrypted_message
  /\ hdec.secret # hdr.secret
  /\ hdec.error = "none"
  /\ BLen(hdec.value) = 32
  /\ hdec.value # hdr.header


\* decrypt_data has finished on a size-valid input whose identifier it verified
DecryptedVerified ==
  /\ pc = "done"
  /\ BLen(dec.encrypted_data) >= 17
  /\ BLen(dec.encrypted_data) % 16 = 0
  /\ dec.expected_msg_id # <<>>
  /\ dec.msg_id = dec.expected_msg_id

\* C11: once the identifier of a size-valid message is verified, with p the
\* first byte of the decrypted plaintext D, decrypt_data raises the padding
\* error exactly when p < 16 or p > len(D), and otherwise returns D[p:].
C11_PaddingValidation ==
  DecryptedVerified =>
     \A p \in Byte0(dec.decrypted_data) :
        IF p < 16 \/ p > BLen(dec.decrypted_data)
          THEN /\ dec.pc = "raise"
               /\ dec.error = "invalid prefix size"
               /\ dec.value = <<>>
          ELSE /\ dec.pc = "return"
               /\ dec.error = "none"
               /\ dec.value = Slice(dec.decrypted_data, p,
                                    BLen(dec.decrypted_data))

C11_Witness ==
  /\ DecryptedVerified
  /\ msg.fn = "prefix"
  /\ BLen(dec.decrypted_data) = 32
  /\ Byte0(dec.decrypted_data) = {33}
  /\ dec.error = "invalid prefix size"


SizeValid(e) == BLen(e) >= 17 /\ BLen(e) % 16 = 0

IdentifierVerified == dec.expected_msg_id # <<>> /\ dec.msg_id = dec.expected_msg_id

\* what each check of decrypt_data has established when the call is past it
ChecksInOrder ==
  /\ dec.pc \in {"derive", "decrypt", "verify", "unpad", "return"} =>
        SizeValid(dec.encrypted_data)
  /\ dec.pc \in {"unpad", "return"} => IdentifierVerified
  /\ dec.pc = "return" =>
        /\ dec.error = "none"
        /\ \A p \in Byte0(dec.decrypted_data) :
              /\ p >= 16
              /\ p <= BLen(dec.decrypted_data)
  /\ dec.pc = "raise" =>
        /\ dec.error \in SizeErrors <=> ~SizeValid(dec.encrypted_data)
        /\ dec.error = "msg_id mismatch" =>
              (dec.expected_msg_id # <<>> /\ dec.msg_id # dec.expected_msg_id)
        /\ dec.error = "invalid prefix size" => IdentifierVerified
        /\ dec.error # "none"
  /\ dec.pc # "return" => dec.value = <<>>
  /\ dec.pc # "raise" => dec.error = "none"

\* the stages of decrypt_data follow each other in the order of the code, an
\* error ends the call, and a finished call stays as it is
StagesInOrder ==
  /\ dec'.pc # dec.pc =>
        <<dec.pc, dec'.pc>> \in
           {<<"idle", "check_size">>, <<"check_size", "raise">>,
            <<"check_size", "derive">>, <<"derive", "decrypt">>,
            <<"decrypt", "verify">>, <<"verify", "raise">>,
            <<"verify", "unpad">>, <<"unpad", "raise">>,
            <<"unpad", "return">>}
  /\ dec.pc \in {"raise", "return"} => dec' = dec

\* C12: decrypt_data checks size, then identifier, then padding; the first
\* failing check ends the call with its error and no plaintext; a plaintext is
\* returned only after all three checks passed, and the padding error is only
\* raised for a message whose identifier was verified.
C12_ChecksOrdered == []ChecksInOrder /\ [][StagesInOrder]_vars

C12_Witness ==
  /\ dec.pc = "raise"
  /\ dec.error = "invalid prefix size"
  /\ IdentifierVerified
  /\ BLen(dec.decrypted_data) = 16
  /\ Byte0(dec.decrypted_data) = {0}


\* C13: whatever the interleaving of the steps of the calls of the threads,
\* a finished call has the result the same call gives when it runs alone.
C13_CallsIndependent ==
  \A t \in Threads :
     calls[t].pc \in {"return", "raise"} =>
        /\ calls[t].error = CallAlone(calls[t]).error
        /\ calls[t].value = CallAlone(calls[t]).value

C13_Witness ==
  /\ calls[1].op = "encrypt_data_with_deterministic_padding"
  /\ calls[1].pc = "encrypt"
  /\ calls[2].op = "decrypt_data"
  /\ calls[2].pc = "return"
  /\ calls[1].data = <<>>
  /\ calls[2].value = Hello

\* the vector is the record of an encryption whose two decryptions gave
\* back the data and the header
VectorPassed(vec) ==
  LET secret == unhexlify(vec.secret)
      data == unhexlify(vec.data)
      extra == unhexlify(vec.extra)
      header == unhexlify(vec.header)
      e == encrypt_data_with_deterministic_padding(data, secret, extra)
      eh == encrypt_header(header, e.value, secret)
  IN /\ e.error = "none"
     /\ eh.error = "none"
     /\ vec.encrypted = hexlify(e.value)
     /\ vec.encrypted_header = hexlify(eh.value)
     /\ decrypt_data(e.value, secret, extra) = Return(data)
     /\ decrypt_header(eh.value, e.value, secret) = Return(header)

VectorFields(vec) ==
  <<vec.name, vec.secret, vec.data, vec.extra, vec.header, vec.encrypted,
    vec.encrypted_header>>

HarnessLoopPcs ==
  {"encrypt", "encrypt_header", "decrypt", "decrypt_header", "store"}

HarnessSelfChecked ==
  LET h == harness
  IN /\ h.pc # "idle" =>
          /\ Len(h.vectors) = NumVectors
          /\ \A j, k \in 1..NumVectors :
               j # k => h.vectors[j].name # h.vectors[k].name
     /\ h.pc \in HarnessLoopPcs =>
          /\ h.file = "none"
          /\ h.i \in 1..NumVectors
          /\ \A k \in 1..(h.i - 1) : VectorPassed(h.vectors[k])
          /\ \A k \in h.i..NumVectors :
               /\ h.vectors[k].encrypted = <<>>
               /\ h.vectors[k].encrypted_header = <<>>
     /\ h.pc = "aborted" =>
          h.error # "none" /\ h.file = "none" /\ h.records = <<>>
     /\ h.file = "none" => h.struct = <<>> /\ h.records = <<>>
     /\ h.file # "none" =>
          /\ h.error = "none"
          /\ \A k \in 1..NumVectors : VectorPassed(h.vectors[k])
     /\ h.records # <<>> => h.struct = FieldNames
     /\ Len(h.records) <= NumVectors
     /\ \A k \in 1..Len(h.records) : h.records[k] = VectorFields(h.vectors[k])
     /\ h.file = "closed" => Len(h.records) = NumVectors

HarnessNextPc(h) ==
  CASE h.pc = "idle" -> {"encrypt"}
    [] h.pc = "encrypt" -> {"encrypt_header", "aborted"}
    [] h.pc = "encrypt_header" -> {"decrypt", "aborted"}
    [] h.pc = "decrypt" ->
         IF decrypt_data(h.encrypted, h.secret, h.extra) = Return(h.data)
           THEN {"decrypt_header"} ELSE {"aborted"}
    [] h.pc = "decrypt_header" ->
         IF decrypt_header(h.encrypted_header, h.encrypted, h.secret)
              = Return(h.header)
           THEN {"store"} ELSE {"aborted"}
    [] h.pc = "store" -> IF h.i < NumVectors THEN {"encrypt"} ELSE {"open"}
    [] h.pc = "open" -> {"preamble"}
    [] h.pc = "preamble" -> {"records"}
    [] h.pc = "records" ->
         IF Len(h.records) + 1 < NumVectors THEN {"records"} ELSE {"trailer"}
    [] h.pc = "trailer" -> {"done"}
    [] OTHER -> {}

HarnessInOrder ==
  harness' # harness =>
    /\ harness'.pc \in HarnessNextPc(harness)
    /\ harness.pc \in HarnessLoopPcs \ {"store"} =>
         harness'.i = harness.i /\ harness'.vectors = harness.vectors
    /\ harness.pc = "store" =>
         /\ harness'.vectors[harness.i].encrypted = hexlify(harness.encrypted)
         /\ harness'.vectors[harness.i].encrypted_header
              = hexlify(harness.encrypted_header)
    /\ harness.file # "none" => harness'.vectors = harness.vectors
    /\ harness.file = "open" => harness'.file \in {"open", "closed"}
    /\ harness.file = "closed" => harness'.file = "closed"

\* C14: the harness encrypts each of its seven vectors and at once decrypts
\* the message and the header, aborting on the first vector whose decrypted
\* data or header differs; the fixture file is opened and written only after
\* all seven vectors passed both checks, and every record printed has the
\* fields name, secret, data, extra, header, encrypted, encrypted_header in
\* that order.
C14_SelfCheckBeforeEmission == []HarnessSelfChecked /\ [][HarnessInOrder]_vars

C14_Witness ==
  /\ harness.pc = "done"
  /\ harness.file = "closed"
  /\ Len(harness.records) = NumVectors
  /\ harness.records[5][1] = "very_long_message"
  /\ BLen(harness.records[5][6]) = 2 * (16 + 320)

\* C15: data + extra + encode_len(extra) determines the pair (data, extra):
\* two pairs that give the same bytes to the HMAC are the same pair.
C15_MacInputUnambiguous ==
  (pc = "mac_both" /\ msg.value = prev.msg.value) =>
    (msg.data = prev.msg.data /\ msg.extra = prev.msg.extra)

C15_Witness ==
  /\ pc = "mac_both"
  /\ msg.value = prev.msg.value
  /\ msg.value = Lit(<<1, 1, 0, 0, 0, 4, 0, 0, 0>>)
  /\ msg.data = Lit(<<1>>)

\* encrypted messages that share the first 16 bytes of m: shorter, longer,
\* with other bytes behind the prefix
SamePrefixMessages(m) ==
  LET prefix == Slice(m, 0, 16)
  IN {m, prefix, Cat(prefix, Zeros(1)), Cat(prefix, Zeros(16)),
      Cat(prefix, Fill(32, 255)), Cat(m, Zeros(16)),
      Cat(prefix, Slice(m, 17, BLen(m)))}

\* C16: encrypt_header and decrypt_header give the same result for any two
\* encrypted messages of at least 16 bytes with the same first 16 bytes,
\* whatever follows the prefix.
C16_HeaderDependsOnPrefixOnly ==
  /\ (hdr.fn = "encrypt_header" /\ BLen(hdr.encrypted_message) >= 16) =>
       \A m2 \in SamePrefixMessages(hdr.encrypted_message) :
         encrypt_header(hdr.header, m2, hdr.secret)
           = [error |-> hdr.error, value |-> hdr.value]
  /\ (hdec.fn = "decrypt_header" /\ BLen(hdec.encrypted_message) >= 16) =>
       \A m2 \in SamePrefixMessages(hdec.encrypted_message) :
         decrypt_header(hdec.encrypted_header, m2, hdec.secret)
           = [error |-> hdec.error, value |-> hdec.value]

C16_Witness ==
  /\ hdr.fn = "encrypt_header"
  /\ hdec.fn = "decrypt_header"
  /\ BLen(msg.value) >= 32
  /\ hdr.encrypted_message = msg.value
  /\ hdr.error = "none"
  /\ hdec.encrypted_header = hdr.value
  /\ hdec.encrypted_message = Cat(Slice(msg.value, 0, 16), Zeros(16))
  /\ hdec.secret = hdr.secret
  /\ hdec.error = "none"
  /\ hdec.value = hdr.header

====
